---------------------------- MODULE Spec2Model ----------------------------
(***************************************************************************)
(* Model of belts/main.py: solve_belts (lower-bounded max-flow with node   *)
(* caps) on top of the deterministic Dinic engine.                         *)
(*                                                                         *)
(* Numbers: the program computes in Python floats.  Every input drawn here *)
(* is an integer, so every capacity, demand and flow stays an integer far  *)
(* below 2^53 and float arithmetic is exact.  On integers                  *)
(*     x > EPS (1e-9)        is  x > 0                                     *)
(*     abs(x) <= EPS         is  x = 0                                     *)
(*     abs(x - y) > 1e-6     is  x # y                                     *)
(*     round(x, 9)           is  x                                         *)
(* and the model writes the right-hand forms.                              *)
(*                                                                         *)
(* Positions: Python lists are 0-based, TLA+ sequences 1-based.  Every arc *)
(* position (Edge.rev, the handle returned by add_edge, the cursor it[u])  *)
(* is the Python position plus one.  Node indices stay 0-based.            *)
(***************************************************************************)
EXTENDS Integers, Sequences, FiniteSets, TLC

VARIABLES inp, sorted_nodes, in_id, out_id, N, pc, i, g, edge_records,
          node_split_edge_ref, demand, total_pos_demand, total_supply, phase,
          level, it, flow, path, pushed, calls, result

(* The input and what lines 119-161 derive from it; fixed during a solve.  *)
names == <<inp, sorted_nodes, in_id, out_id, N>>

vars == <<names, pc, i, g, edge_records, node_split_edge_ref, demand,
          total_pos_demand, total_supply, phase, level, it, flow, path,
          pushed, calls, result>>

-----------------------------------------------------------------------------
(* Bounds of the input family.                                             *)
MaxLo == 1
MaxHi == 2
MaxSupply == 2
MaxNodeCap == 2

(* The initial bound f handed to dfs by max_flow (1e18 in the program).    *)
(* It only has to exceed every capacity; TLC integers are 32 bit.          *)
DfsLimit == 1000000000

(* Python's None for a missing sink.                                       *)
None == "None"

(* Node names, listed in Python's string order (sorted()).                 *)
NameOrder == <<"A", "B", "C", "D", "S", "T">>

Rank(name) == CHOOSE k \in 1..Len(NameOrder) : NameOrder[k] = name

Min(a, b) == IF a <= b THEN a ELSE b

Max(a, b) == IF a >= b THEN a ELSE b

(* A Python dict as a function; the empty dict.                            *)
EmptyDict == [x \in {} |-> 0]

DeclEdge(u, v, lo, hi) == [from |-> u, to |-> v, lo |-> lo, hi |-> hi]

-----------------------------------------------------------------------------
(* Inputs.                                                                 *)

(* Scenario A of the specification / gen_belts.py's sample network.        *)
ScenarioA ==
    [edges |-> << DeclEdge("S", "A", 0, 10), DeclEdge("A", "B", 0, 5),
                  DeclEdge("B", "T", 0, 10) >>,
     sources |-> [n \in {"S"} |-> 10],
     sink |-> "T",
     node_caps |-> [n \in {"A", "B"} |-> IF n = "A" THEN 8 ELSE 10]]

(* A single lower-bounded belt from the source to the sink.                *)
SingleBelt ==
    [edges |-> << DeclEdge("S", "T", 1, 5) >>,
     sources |-> [n \in {"S"} |-> 1],
     sink |-> "T",
     node_caps |-> EmptyDict]

(* Two unit routes S-A-D-T and S-B-C-T that share the belt A->C: the arc   *)
(* order sends the first path over A->C, and the second route is only      *)
(* found by taking that flow back.                                         *)
CrossBelts ==
    [edges |-> << DeclEdge("S", "A", 0, 1), DeclEdge("S", "B", 0, 1),
                  DeclEdge("A", "C", 0, 1), DeclEdge("A", "D", 0, 1),
                  DeclEdge("B", "C", 0, 1), DeclEdge("C", "T", 0, 1),
                  DeclEdge("D", "T", 0, 1) >>,
     sources |-> [n \in {"S"} |-> 2],
     sink |-> "T",
     node_caps |-> EmptyDict]

(* Shapes of declared edge lists, in declaration order: a single belt, a   *)
(* chain through A (declared against the (from, to) order), a cycle back   *)
(* from the sink to the source, and a chain with a self-loop on A.         *)
Shapes ==
    { << <<"S", "T">> >>,
      << <<"S", "A">>, <<"A", "T">> >>,
      << <<"S", "A">>, <<"A", "T">>, <<"T", "S">> >>,
      << <<"A", "A">>, <<"S", "A">>, <<"A", "T">> >> }

LoHi == (0..MaxLo) \X (0..MaxHi)

EdgeLists ==
    UNION { { [k \in 1..Len(sh) |->
                  DeclEdge(sh[k][1], sh[k][2], b[k][1], b[k][2])] :
              b \in [1..Len(sh) -> LoHi] } : sh \in Shapes }

(* Every shape under every choice of bounds, with one source S, the sink   *)
(* T, and either no node cap or a cap on the inner node A.                 *)
FlowProfiles ==
    { [sources |-> [n \in {"S"} |-> s], node_caps |-> EmptyDict] :
      s \in 1..MaxSupply }
    \cup
    { [sources |-> [n \in {"S"} |-> 1], node_caps |-> [n \in {"A"} |-> c]] :
      c \in 1..MaxNodeCap }

FlowFamily ==
    { [edges |-> es, sources |-> p.sources, sink |-> "T",
       node_caps |-> p.node_caps] :
      es \in EdgeLists, p \in FlowProfiles }

(* A few fixed edge lists under every choice of sources (S, the stray name *)
(* B, both, none), sink (T, the source S, missing) and single node cap.    *)
FixedEdgeLists ==
    { << DeclEdge("S", "A", 0, 2), DeclEdge("A", "T", 0, 2) >>,
      << DeclEdge("S", "A", 1, 2), DeclEdge("A", "T", 0, 2) >>,
      << DeclEdge("S", "A", 1, 2), DeclEdge("A", "T", 0, 2),
         DeclEdge("T", "S", 0, 1) >>,
      << DeclEdge("S", "A", 2, 0), DeclEdge("A", "T", 1, 0) >> }

SourceDicts ==
    UNION { [d -> 0..MaxSupply] : d \in SUBSET {"B", "S"} }

SinkChoices == {"T", "S", None}

CapDicts ==
    {EmptyDict}
    \cup { [n \in {m} |-> c] : m \in {"A", "S", "T"}, c \in 0..MaxNodeCap }

NameFamily ==
    { [edges |-> es, sources |-> src, sink |-> snk, node_caps |-> nc] :
      es \in FixedEdgeLists, src \in SourceDicts, snk \in SinkChoices,
      nc \in CapDicts }

Inputs == {ScenarioA, SingleBelt, CrossBelts} \cup FlowFamily \cup NameFamily

-----------------------------------------------------------------------------
(* solve_belts, lines 119-161: names and indices.                          *)

edges_in == inp.edges
sources == inp.sources
sink == inp.sink
node_caps == inp.node_caps

(* Lines 125-131: the set of node names of an input.                       *)
NodesOf(x) ==
    {x.edges[k].from : k \in 1..Len(x.edges)}
      \cup {x.edges[k].to : k \in 1..Len(x.edges)}
      \cup DOMAIN x.sources
      \cup (IF x.sink # None THEN {x.sink} ELSE {})
      \cup DOMAIN x.node_caps

(* Line 132.                                                               *)
SortedNodes(x) == SelectSeq(NameOrder, LAMBDA n : n \in NodesOf(x))

(* Mutant of IsSplit: the test on sources inverted.                        *)
IsSplitInverted(x, name) ==
    name \in DOMAIN x.node_caps /\ name # x.sink
      /\ name \in DOMAIN x.sources

(* Line 146: the nodes that are split into an in and an out index.         *)
IsSplit(x, name) ==
    name \in DOMAIN x.node_caps /\ name # x.sink
      /\ name \notin DOMAIN x.sources

(* Lines 144-154: indices are handed out in sorted order, two to a split   *)
(* node and one to any other; IdxBefore(x, k) is idx on entering the k-th  *)
(* iteration.                                                              *)
RECURSIVE IdxBefore(_, _)
IdxBefore(x, k) ==
    IF k <= 1 THEN 0
    ELSE IdxBefore(x, k - 1)
           + (IF IsSplit(x, SortedNodes(x)[k - 1]) THEN 2 ELSE 1)

InIds(x) ==
    [name \in NodesOf(x) |->
        IdxBefore(x, CHOOSE k \in 1..Len(SortedNodes(x)) :
                         SortedNodes(x)[k] = name)]

OutIds(x) ==
    [name \in NodesOf(x) |->
        IF IsSplit(x, name) THEN InIds(x)[name] + 1 ELSE InIds(x)[name]]

(* Lines 156-161.                                                          *)
NodeCount(x) == IdxBefore(x, Len(SortedNodes(x)) + 1) + 4

S_star == N - 4
T_star == N - 3
S_main == N - 2
T_main == N - 1

(* sorted(edges_in, key=lambda x: (x['from'], x['to'])): a stable sort.    *)
KeyLess(s, a, b) ==
    \/ Rank(s[a].from) < Rank(s[b].from)
    \/ Rank(s[a].from) = Rank(s[b].from) /\ Rank(s[a].to) < Rank(s[b].to)
    \/ Rank(s[a].from) = Rank(s[b].from) /\ Rank(s[a].to) = Rank(s[b].to)
         /\ a < b

(* Mutant of SortByFromTo: the edges are taken in declaration order.       *)
SortByFromToUnsorted(s) == s

SortByFromTo(s) ==
    [k \in 1..Len(s) |->
        s[CHOOSE a \in 1..Len(s) :
             Cardinality({b \in 1..Len(s) : KeyLess(s, b, a)}) = k - 1]]

sorted_edges == SortByFromTo(edges_in)

sorted_sources == SelectSeq(NameOrder, LAMBDA n : n \in DOMAIN sources)

-----------------------------------------------------------------------------
(* Dinic.add_edge, lines 54-61.                                            *)

Arc(to, rev, cap) == [to |-> to, rev |-> rev, cap |-> cap, orig |-> cap]

add_edge(gg, u, v, c) ==
    LET g1 == [gg EXCEPT ![u] = Append(@, Arc(v, Len(gg[v]) + 1, c))]
    IN  [g1 EXCEPT ![v] = Append(@, Arc(u, Len(g1[u]), 0))]

(* The handle add_edge returns: (u, len(ulist) - 1).                       *)
add_edge_pos(gg, u) == Len(gg[u]) + 1


-----------------------------------------------------------------------------
(* Dinic.bfs, lines 62-71: the level of every node reachable from s over   *)
(* arcs with remaining capacity, -1 elsewhere.                             *)

AllNodes == 0..(N - 1)

(* Mutant of BfsScan: an arc counts as open only above one unit.           *)
RECURSIVE BfsScanCoarse(_, _, _, _, _)
BfsScanCoarse(gg, u, k, q, lvl) ==
    IF k > Len(gg[u]) THEN [q |-> q, level |-> lvl]
    ELSE LET e == gg[u][k]
         IN  IF e.cap > 1 /\ lvl[e.to] < 0
             THEN BfsScanCoarse(gg, u, k + 1, Append(q, e.to),
                                [lvl EXCEPT ![e.to] = lvl[u] + 1])
             ELSE BfsScanCoarse(gg, u, k + 1, q, lvl)

RECURSIVE BfsScan(_, _, _, _, _)
BfsScan(gg, u, k, q, lvl) ==
    IF k > Len(gg[u]) THEN [q |-> q, level |-> lvl]
    ELSE LET e == gg[u][k]
         IN  IF e.cap > 0 /\ lvl[e.to] < 0
             THEN BfsScan(gg, u, k + 1, Append(q, e.to),
                          [lvl EXCEPT ![e.to] = lvl[u] + 1])
             ELSE BfsScan(gg, u, k + 1, q, lvl)

RECURSIVE BfsLoop(_, _, _)
BfsLoop(gg, q, lvl) ==
    IF q = << >> THEN lvl
    ELSE LET r == BfsScan(gg, Head(q), 1, Tail(q), lvl)
         IN  BfsLoop(gg, r.q, r.level)

bfs(gg, s) == BfsLoop(gg, <<s>>, [n \in AllNodes |-> IF n = s THEN 0 ELSE -1])

(* Dinic.dfs, lines 72-83.  The search down to t reads capacities and      *)
(* moves the cursors; the capacities change while the recursion unwinds.   *)
(* dfs returns the amount, the arcs <<u, position>> of the path found      *)
(* from u to t, and the cursors as the search left them.                   *)
RECURSIVE dfs(_, _, _, _, _, _), DfsLoop(_, _, _, _, _, _, _)
dfs(gg, lvl, u, t, f, itv) ==
    IF u = t THEN [pushed |-> f, path |-> << >>, it |-> itv]
    ELSE DfsLoop(gg, lvl, u, t, f, itv, itv[u])

DfsLoop(gg, lvl, u, t, f, itv, k) ==
    IF k > Len(gg[u]) THEN [pushed |-> 0, path |-> << >>, it |-> itv]
    ELSE LET it1 == [itv EXCEPT ![u] = k]
             e == gg[u][k]
         IN  IF e.cap > 0 /\ lvl[e.to] = lvl[u] + 1
             THEN LET r == dfs(gg, lvl, e.to, t, Min(f, e.cap), it1)
                  IN  IF r.pushed > 0
                      THEN [pushed |-> r.pushed,
                            path |-> << <<u, k>> >> \o r.path,
                            it |-> r.it]
                      ELSE DfsLoop(gg, lvl, u, t, f, r.it, k + 1)
             ELSE DfsLoop(gg, lvl, u, t, f, it1, k + 1)

(* Mutant of PushOn: the arc's whole remaining capacity is moved, not the  *)
(* amount the path carries.                                                *)
PushOnWholeArc(gg, u, k, amount) ==
    LET e == gg[u][k]
        g1 == [gg EXCEPT ![u][k].cap = 0]
    IN  [g1 EXCEPT ![e.to][e.rev].cap = @ + e.cap]

(* Lines 80-81: e.cap -= pushed; self.g[e.to][e.rev].cap += pushed.        *)
PushOn(gg, u, k, amount) ==
    LET e == gg[u][k]
        g1 == [gg EXCEPT ![u][k].cap = @ - amount]
    IN  [g1 EXCEPT ![e.to][e.rev].cap = @ + amount]

-----------------------------------------------------------------------------
(* Results of solve_belts.                                                 *)

NoResult == [status |-> "none"]

Infeasible(cut, balance, tnodes, tedges) ==
    [status |-> "infeasible", cut_reachable |-> cut,
     deficit |-> [demand_balance |-> balance, tight_nodes |-> tnodes,
                  tight_edges |-> tedges]]

(* Lines 209-243 and 270-299: the certificate after a failed phase.        *)
Visited(gg, src) == {n \in AllNodes : bfs(gg, src)[n] >= 0}

CutReachable(gg, src) ==
    SelectSeq(sorted_nodes,
              LAMBDA n : in_id[n] \in Visited(gg, src)
                         \/ out_id[n] \in Visited(gg, src))

IsTightEdge(gg, src, r) ==
    /\ r.u_idx \in Visited(gg, src)
    /\ gg[r.u_idx][r.pos].to \notin Visited(gg, src)
    /\ gg[r.u_idx][r.pos].cap <= 0

TightEdges(gg, src, recs) ==
    LET sel == SelectSeq(recs, LAMBDA r : IsTightEdge(gg, src, r))
    IN  [k \in 1..Len(sel) |->
            [from |-> sel[k].u_name, to |-> sel[k].v_name,
             flow_needed |-> sel[k].lo + gg[sel[k].u_idx][sel[k].pos].orig]]

(* Mutant of IsTightNode: a cap that is used at all counts as tight.        *)
IsTightNodeUsed(gg, refs, name) ==
    /\ name \in DOMAIN refs
    /\ gg[refs[name][1]][refs[name][2]].cap < gg[refs[name][1]][refs[name][2]].orig

(* Lines 233-237 and 289-293: a split node whose cap arc is saturated.     *)
IsTightNode(gg, refs, name) ==
    name \in DOMAIN refs /\ gg[refs[name][1]][refs[name][2]].cap <= 0

TightNodes(gg, src, refs) ==
    SelectSeq(NameOrder, LAMBDA n : IsTightNode(gg, refs, n))

Certificate(gg, src, target, achieved, recs, refs) ==
    Infeasible(CutReachable(gg, src), target - achieved,
               TightNodes(gg, src, refs), TightEdges(gg, src, recs))

(* Mutant of ReconstructFlows: the lower bound is not added back.          *)
ReconstructFlowsNoLo(gg, recs) ==
    [k \in 1..Len(recs) |->
        [from |-> recs[k].u_name, to |-> recs[k].v_name,
         flow |-> gg[recs[k].u_idx][recs[k].pos].orig
                    - gg[recs[k].u_idx][recs[k].pos].cap]]

(* Lines 301-309: flow reconstruction.                                     *)
ReconstructFlows(gg, recs) ==
    [k \in 1..Len(recs) |->
        [from |-> recs[k].u_name, to |-> recs[k].v_name,
         flow |-> (gg[recs[k].u_idx][recs[k].pos].orig
                     - gg[recs[k].u_idx][recs[k].pos].cap) + recs[k].lo]]

(* Lines 311-315: the delivered total.                                     *)
RECURSIVE TotalDelivered(_, _)
TotalDelivered(flows, k) ==
    IF k = 0 THEN 0
    ELSE TotalDelivered(flows, k - 1)
           + (IF flows[k].to = sink THEN flows[k].flow ELSE 0)

Ok(gg, recs) ==
    LET flows == ReconstructFlows(gg, recs)
    IN  [status |-> "ok",
         max_flow_per_min |-> TotalDelivered(flows, Len(flows)),
         flows |-> flows]

-----------------------------------------------------------------------------
(* The solve as a state machine.                                           *)

Init ==
    /\ inp \in Inputs
    /\ sorted_nodes = SortedNodes(inp)
    /\ in_id = InIds(inp)
    /\ out_id = OutIds(inp)
    /\ N = NodeCount(inp)
    /\ pc = "split"
    /\ i = 1
    /\ g = [n \in AllNodes |-> << >>]
    /\ edge_records = << >>
    /\ node_split_edge_ref = EmptyDict
    /\ demand = [n \in AllNodes |-> 0]
    /\ total_pos_demand = 0
    /\ total_supply = 0
    /\ phase = 0
    /\ level = [n \in AllNodes |-> -1]
    /\ it = [n \in AllNodes |-> 1]
    /\ flow = 0
    /\ path = << >>
    /\ pushed = 0
    /\ calls = << >>
    /\ result = NoResult

(* Lines 167-173: one iteration of the node-split loop.                    *)
SplitStep ==
    /\ pc = "split"
    /\ IF i > Len(sorted_nodes)
       THEN /\ pc' = "edges"
            /\ i' = 1
            /\ UNCHANGED <<g, node_split_edge_ref>>
       ELSE LET name == sorted_nodes[i]
            IN  /\ i' = i + 1
                /\ pc' = pc
                /\ IF in_id[name] # out_id[name]
                   THEN /\ g' = add_edge(g, in_id[name], out_id[name],
                                         node_caps[name])
                        /\ node_split_edge_ref' =
                             (name :> <<in_id[name],
                                        add_edge_pos(g, in_id[name])>>)
                               @@ node_split_edge_ref
                   ELSE UNCHANGED <<g, node_split_edge_ref>>
    /\ UNCHANGED <<names, edge_records, demand, total_pos_demand, total_supply,
                   phase, level, it, flow, path, pushed, calls, result>>

(* Lines 178-192: one iteration of the loop over the sorted edges.         *)
EdgeStep ==
    /\ pc = "edges"
    /\ IF i > Len(sorted_edges)
       THEN /\ pc' = "demand"
            /\ i' = 0
            /\ UNCHANGED <<g, edge_records, demand, result>>
       ELSE LET e == sorted_edges[i]
                u_idx == out_id[e.from]
                v_idx == in_id[e.to]
                cap == Max(0, e.hi - e.lo)
            IN  IF e.hi < e.lo
                THEN /\ result' = Infeasible(<< >>, e.lo - e.hi, << >>, << >>)
                     /\ pc' = "done"
                     /\ UNCHANGED <<i, g, edge_records, demand>>
                ELSE /\ g' = add_edge(g, u_idx, v_idx, cap)
                     /\ edge_records' =
                          Append(edge_records,
                                 [u_name |-> e.from, v_name |-> e.to,
                                  lo |-> e.lo, hi |-> e.hi, u_idx |-> u_idx,
                                  pos |-> add_edge_pos(g, u_idx)])
                     /\ demand' =
                          LET d1 == [demand EXCEPT ![v_idx] = @ + e.lo]
                          IN  [d1 EXCEPT ![u_idx] = @ - e.lo]
                     /\ i' = i + 1
                     /\ pc' = pc
                     /\ UNCHANGED result
    /\ UNCHANGED <<names, node_split_edge_ref, total_pos_demand, total_supply,
                   phase, level, it, flow, path, pushed, calls>>

(* Lines 195-202: one iteration of the loop wiring demands to S* and T*.   *)
DemandStep ==
    /\ pc = "demand"
    /\ IF i >= N
       THEN /\ pc' = "call1"
            /\ UNCHANGED <<i, g, total_pos_demand>>
       ELSE /\ i' = i + 1
            /\ pc' = pc
            /\ IF demand[i] = 0
               THEN UNCHANGED <<g, total_pos_demand>>
               ELSE IF demand[i] > 0
                    THEN /\ g' = add_edge(g, S_star, i, demand[i])
                         /\ total_pos_demand' = total_pos_demand + demand[i]
                    ELSE /\ g' = add_edge(g, i, T_star, -demand[i])
                         /\ UNCHANGED total_pos_demand
    /\ UNCHANGED <<names, edge_records, node_split_edge_ref, demand,
                   total_supply, phase, level, it, flow, path, pushed, calls,
                   result>>

(* The endpoints of the running max_flow call.                             *)
MfSource == IF phase = 1 THEN S_star ELSE S_main
MfSink == IF phase = 1 THEN T_star ELSE T_main

(* Lines 84-86 entered from line 205 (ph = 1) or line 267 (ph = 2).  calls *)
(* keeps, for every call of max_flow, its endpoints and the residual graph *)
(* it was entered with.                                                    *)
EnterMaxFlow(ph, s, t) ==
    /\ phase' = ph
    /\ flow' = 0
    /\ level' = [n \in AllNodes |-> -1]
    /\ calls' = Append(calls, [s |-> s, t |-> t, g |-> g])
    /\ pc' = "bfs"

Phase1Start ==
    /\ pc = "call1"
    /\ EnterMaxFlow(1, S_star, T_star)
    /\ UNCHANGED <<names, i, g, edge_records, node_split_edge_ref, demand,
                   total_pos_demand, total_supply, it, path, pushed, result>>

(* Line 87: the loop test of max_flow; line 88 when it succeeds, the       *)
(* return of line 93 when it fails.                                        *)
Bfs ==
    /\ pc = "bfs"
    /\ level' = bfs(g, MfSource)
    /\ IF level'[MfSink] >= 0
       THEN /\ it' = [n \in AllNodes |-> 1]
            /\ pc' = "dfs"
       ELSE /\ pc' = IF phase = 1 THEN "check1" ELSE "check2"
            /\ UNCHANGED it
    /\ UNCHANGED <<names, i, g, edge_records, node_split_edge_ref, demand,
                   total_pos_demand, total_supply, phase, flow, path, pushed,
                   calls, result>>

(* Line 90: one dfs call, down to the sink or to exhaustion.               *)
Dfs ==
    /\ pc = "dfs"
    /\ LET r == dfs(g, level, MfSource, MfSink, DfsLimit, it)
       IN  /\ it' = r.it
           /\ pushed' = r.pushed
           /\ IF r.pushed > 0
              THEN /\ path' = r.path
                   /\ pc' = "push"
              ELSE /\ path' = << >>
                   /\ pc' = "bfs"
    /\ UNCHANGED <<names, i, g, edge_records, node_split_edge_ref, demand,
                   total_pos_demand, total_supply, phase, level, flow, calls,
                   result>>

(* Lines 80-82 for one arc of the path, deepest arc first; line 92 once    *)
(* the outermost dfs frame has returned.                                   *)
Push ==
    /\ pc = "push"
    /\ LET a == path[Len(path)]
       IN  g' = PushOn(g, a[1], a[2], pushed)
    /\ path' = SubSeq(path, 1, Len(path) - 1)
    /\ IF Len(path) = 1
       THEN /\ flow' = flow + pushed
            /\ pc' = "dfs"
       ELSE UNCHANGED <<flow, pc>>
    /\ UNCHANGED <<names, i, edge_records, node_split_edge_ref, demand,
                   total_pos_demand, total_supply, phase, level, it, pushed,
                   calls, result>>

(* Mutant of PhaseFailed: only an excess counts as a failure.              *)
PhaseFailedOnExcess(achieved, target) == achieved > target

(* Lines 206 and 268: abs(achieved - target) > 1e-6.                       *)
PhaseFailed(achieved, target) == achieved # target

(* Lines 206-243.                                                          *)
Phase1Check ==
    /\ pc = "check1"
    /\ IF PhaseFailed(flow, total_pos_demand)
       THEN /\ result' = Certificate(g, S_star, total_pos_demand, flow,
                                     edge_records, node_split_edge_ref)
            /\ pc' = "done"
            /\ UNCHANGED i
       ELSE /\ pc' = "sources"
            /\ i' = 1
            /\ UNCHANGED result
    /\ UNCHANGED <<names, g, edge_records, node_split_edge_ref, demand,
                   total_pos_demand, total_supply, phase, level, it, flow,
                   path, pushed, calls>>

(* Lines 251-259: one iteration of the loop over the sorted source names.  *)
SourceStep ==
    /\ pc = "sources"
    /\ IF i > Len(sorted_sources)
       THEN /\ pc' = "sink"
            /\ UNCHANGED <<i, g, total_supply, result>>
       ELSE LET sname == sorted_sources[i]
                supply == IF sources[sname] < 0 THEN 0 ELSE sources[sname]
            IN  IF sname \notin DOMAIN out_id
                THEN /\ result' = Infeasible(<< >>, supply, << >>, << >>)
                     /\ pc' = "done"
                     /\ UNCHANGED <<i, g, total_supply>>
                ELSE /\ i' = i + 1
                     /\ pc' = pc
                     /\ UNCHANGED result
                     /\ IF supply > 0
                        THEN /\ g' = add_edge(g, S_main, out_id[sname], supply)
                             /\ total_supply' = total_supply + supply
                        ELSE UNCHANGED <<g, total_supply>>
    /\ UNCHANGED <<names, edge_records, node_split_edge_ref, demand,
                   total_pos_demand, phase, level, it, flow, path, pushed,
                   calls>>

(* Lines 260-264.                                                          *)
SinkStep ==
    /\ pc = "sink"
    /\ IF sink = None \/ sink \notin DOMAIN in_id
       THEN /\ result' = Infeasible(<< >>, total_supply, << >>, << >>)
            /\ pc' = "done"
            /\ UNCHANGED g
       ELSE /\ g' = add_edge(g, in_id[sink], T_main, total_supply)
            /\ pc' = "call2"
            /\ UNCHANGED result
    /\ UNCHANGED <<names, i, edge_records, node_split_edge_ref, demand,
                   total_pos_demand, total_supply, phase, level, it, flow,
                   path, pushed, calls>>

Phase2Start ==
    /\ pc = "call2"
    /\ EnterMaxFlow(2, S_main, T_main)
    /\ UNCHANGED <<names, i, g, edge_records, node_split_edge_ref, demand,
                   total_pos_demand, total_supply, it, path, pushed, result>>

(* Lines 268-317.                                                          *)
Phase2Check ==
    /\ pc = "check2"
    /\ result' = IF PhaseFailed(flow, total_supply)
                 THEN Certificate(g, S_main, total_supply, flow,
                                  edge_records, node_split_edge_ref)
                 ELSE Ok(g, edge_records)
    /\ pc' = "done"
    /\ UNCHANGED <<names, i, g, edge_records, node_split_edge_ref, demand,
                   total_pos_demand, total_supply, phase, level, it, flow,
                   path, pushed, calls>>

Next ==
    \/ SplitStep
    \/ EdgeStep
    \/ DemandStep
    \/ Phase1Start
    \/ Bfs
    \/ Dfs
    \/ Push
    \/ Phase1Check
    \/ SourceStep
    \/ SinkStep
    \/ Phase2Start
    \/ Phase2Check

Spec == Init /\ [][Next]_vars

-----------------------------------------------------------------------------
(* Vocabulary of the properties.                                           *)

RECURSIVE Sum(_, _)
Sum(fn, S) ==
    IF S = {} THEN 0
    ELSE LET x == CHOOSE y \in S : TRUE
         IN  fn[x] + Sum(fn, S \ {x})

(* Total reported flow entering / leaving a named node.                    *)
FlowInto(flows, n) ==
    Sum([k \in DOMAIN flows |-> flows[k].flow],
        {k \in DOMAIN flows : flows[k].to = n})

FlowOutOf(flows, n) ==
    Sum([k \in DOMAIN flows |-> flows[k].flow],
        {k \in DOMAIN flows : flows[k].from = n})

Done == pc = "done"

ReturnedOk == pc = "done" /\ result.status = "ok"

(* The declared edges with hi < lo, and the one that comes first by        *)
(* (from, to), declaration order breaking ties.                            *)
BadEdges == {k \in DOMAIN edges_in : edges_in[k].hi < edges_in[k].lo}

FirstBadEdge ==
    edges_in[CHOOSE k \in BadEdges :
                \A m \in BadEdges \ {k} : KeyLess(edges_in, k, m)]

(* Nodes at which a flow assignment has to conserve flow.                  *)
InnerNodes == DOMAIN in_id \ (DOMAIN sources \cup {sink})

(* Assignments of a flow to every declared edge, and the feasible ones:    *)
(* within the declared bounds, within the cap of every split node, and     *)
(* conserving flow at every inner node.                                    *)
HiValues == {edges_in[k].hi : k \in DOMAIN edges_in}

TopHi == IF HiValues = {} THEN 0 ELSE CHOOSE h \in HiValues : \A x \in HiValues : x <= h

Assignments == [DOMAIN edges_in -> 0..TopHi]

AssignedInto(f, n) == Sum(f, {k \in DOMAIN edges_in : edges_in[k].to = n})

AssignedOutOf(f, n) == Sum(f, {k \in DOMAIN edges_in : edges_in[k].from = n})

FeasibleAssignment(f) ==
    /\ \A k \in DOMAIN edges_in : edges_in[k].lo <= f[k] /\ f[k] <= edges_in[k].hi
    /\ \A n \in DOMAIN in_id :
         IsSplit(inp, n) => AssignedInto(f, n) <= node_caps[n]
    /\ \A n \in InnerNodes : AssignedInto(f, n) = AssignedOutOf(f, n)

-----------------------------------------------------------------------------
(* C1: on Scenario A (S->A 0..10, A->B 0..5, B->T 0..10, supply 10 at S,   *)
(* sink T, caps A 8 and B 10) solve_belts returns status ok with           *)
(* max_flow_per_min 5.                                                     *)
C1_ScenarioA_Ok ==
    (inp = ScenarioA /\ Done) =>
        (result.status = "ok" /\ result.max_flow_per_min = 5)

(* C2: when phase 1 has returned, its flow equals total_pos_demand exactly *)
(* when some assignment to the declared edges respects every lo..hi, every *)
(* split node's cap, and conservation at every node other than the         *)
(* declared sources and the sink.                                          *)
C2_Phase1Exact ==
    (pc = "check1" /\ BadEdges = {}) =>
        ((flow = total_pos_demand) <=>
            (\E f \in Assignments : FeasibleAssignment(f)))

(* C3: whenever solve_belts returns ok, at every node that is neither a    *)
(* declared source nor the sink the reported flow entering equals the      *)
(* reported flow leaving.                                                  *)
C3_Conservation ==
    ReturnedOk =>
        \A n \in InnerNodes :
            FlowInto(result.flows, n) = FlowOutOf(result.flows, n)

(* C3 witness: an ok result after both phases pushed flow, with a positive *)
(* lower bound on an edge into a split node that carries flow.             *)
C3_Witness ==
    /\ ReturnedOk
    /\ total_pos_demand > 0
    /\ total_supply > 0
    /\ \E k \in DOMAIN sorted_edges :
         /\ sorted_edges[k].lo > 0
         /\ sorted_edges[k].to \in InnerNodes
         /\ in_id[sorted_edges[k].to] # out_id[sorted_edges[k].to]
         /\ FlowInto(result.flows, sorted_edges[k].to) > 0

(* C4 as claimed: whenever solve_belts returns ok, at every node with a    *)
(* declared cap the flow entering and the flow leaving are at most the     *)
(* cap.                                                                    *)
C4_EveryCap ==
    ReturnedOk =>
        \A n \in DOMAIN node_caps :
            /\ FlowInto(result.flows, n) <= node_caps[n]
            /\ FlowOutOf(result.flows, n) <= node_caps[n]

(* C4 amended: whenever solve_belts returns ok, at every node with a       *)
(* declared cap that is neither a key of sources nor the sink, the flow    *)
(* entering and the flow leaving are at most the cap.                      *)
C4_SplitCap ==
    ReturnedOk =>
        \A n \in DOMAIN node_caps :
            (n \notin DOMAIN sources /\ n # sink) =>
                /\ FlowInto(result.flows, n) <= node_caps[n]
                /\ FlowOutOf(result.flows, n) <= node_caps[n]

(* C4 witness: an ok result in which a capped inner node carries exactly   *)
(* its cap.                                                                *)
C4_Witness ==
    /\ ReturnedOk
    /\ \E n \in DOMAIN node_caps :
         /\ n \notin DOMAIN sources /\ n # sink
         /\ node_caps[n] > 0
         /\ FlowInto(result.flows, n) = node_caps[n]

(* C5: whenever solve_belts returns ok, the flow reported for every        *)
(* declared edge lies between its lo and its hi.                           *)
C5_WithinBounds ==
    ReturnedOk =>
        /\ Len(result.flows) = Len(sorted_edges)
        /\ \A k \in DOMAIN sorted_edges :
             /\ result.flows[k].from = sorted_edges[k].from
             /\ result.flows[k].to = sorted_edges[k].to
             /\ sorted_edges[k].lo <= result.flows[k].flow
             /\ result.flows[k].flow <= sorted_edges[k].hi

(* C5 witness: an ok result with an edge whose lower bound is positive and *)
(* whose flow was raised above it, and an edge filled to its hi.           *)
C5_Witness ==
    /\ ReturnedOk
    /\ \E k \in DOMAIN sorted_edges :
         /\ sorted_edges[k].lo > 0
         /\ result.flows[k].flow > sorted_edges[k].lo
    /\ \E k \in DOMAIN sorted_edges :
         /\ sorted_edges[k].hi > sorted_edges[k].lo
         /\ result.flows[k].flow = sorted_edges[k].hi

(* C6: if some declared edge has hi < lo, no max-flow phase is ever        *)
(* entered and the solve returns infeasible with demand_balance lo - hi of *)
(* the first such edge in (from, to) order, an empty cut and no tight      *)
(* nodes or edges, whatever the rest of the input is.                      *)
C6_BadBounds ==
    BadEdges # {} =>
        /\ calls = << >>
        /\ pc \in {"split", "edges", "done"}
        /\ Done =>
             /\ result.status = "infeasible"
             /\ result.cut_reachable = << >>
             /\ result.deficit.demand_balance
                  = FirstBadEdge.lo - FirstBadEdge.hi
             /\ result.deficit.tight_nodes = << >>
             /\ result.deficit.tight_edges = << >>

(* C6 witness: the solve has returned on an input with no sink and two     *)
(* edges with hi < lo, where the edge declared first is not the first in   *)
(* (from, to) order and has a different shortfall.                         *)
C6_Witness ==
    /\ Done
    /\ sink = None
    /\ Cardinality(BadEdges) = 2
    /\ edges_in[1].hi < edges_in[1].lo
    /\ edges_in[1].lo - edges_in[1].hi # result.deficit.demand_balance

(* C7: if a declared source appears in no edge, is not the sink and has no *)
(* node cap, solve_belts returns infeasible with an empty cut_reachable    *)
(* and demand_balance equal to that source's supply.  Stated for the       *)
(* solves that got past the loop over the sources and ran phase 2.         *)
StraySources ==
    {s \in DOMAIN sources :
        /\ \A k \in DOMAIN edges_in : edges_in[k].from # s /\ edges_in[k].to # s
        /\ s # sink
        /\ s \notin DOMAIN node_caps}

C7_StraySource ==
    (Done /\ Len(calls) = 2) =>
        \A s \in StraySources :
            /\ result.status = "infeasible"
            /\ result.cut_reachable = << >>
            /\ result.deficit.demand_balance = sources[s]

(* C8: when the sink is missing (and every edge has hi >= lo) no max-flow  *)
(* phase is ever entered, no capacity changes, and the solve returns       *)
(* infeasible with an empty cut, no tight nodes or edges, and              *)
(* demand_balance equal to the total declared supply.                      *)
DeclaredSupply == Sum(sources, DOMAIN sources)

C8_MissingSink ==
    (sink = None /\ BadEdges = {}) =>
        /\ calls = << >>
        /\ \A u \in DOMAIN g : \A k \in DOMAIN g[u] : g[u][k].cap = g[u][k].orig
        /\ Done =>
             /\ result.status = "infeasible"
             /\ result.cut_reachable = << >>
             /\ result.deficit.demand_balance = DeclaredSupply
             /\ result.deficit.tight_nodes = << >>
             /\ result.deficit.tight_edges = << >>

(* C9: on ok, flows has one entry per declared edge, in the order the      *)
(* edges were declared.                                                    *)
C9_DeclaredOrder ==
    ReturnedOk =>
        /\ Len(result.flows) = Len(edges_in)
        /\ \A k \in DOMAIN edges_in :
             /\ result.flows[k].from = edges_in[k].from
             /\ result.flows[k].to = edges_in[k].to

(* C10: whenever solve_belts returns ok, every declared source other than  *)
(* the sink sends out exactly its supply: reported flow leaving it minus   *)
(* reported flow entering it equals the supply.                            *)
C10_SourceSupply ==
    ReturnedOk =>
        \A s \in DOMAIN sources :
            s # sink =>
                FlowOutOf(result.flows, s) - FlowInto(result.flows, s)
                  = sources[s]

(* C10 witness: an ok result in which a source with positive supply also   *)
(* receives flow on an incoming edge.                                      *)
C10_Witness ==
    /\ ReturnedOk
    /\ \E s \in DOMAIN sources :
         /\ s # sink
         /\ sources[s] > 0
         /\ FlowInto(result.flows, s) > 0

-----------------------------------------------------------------------------
(* Residual reachability and cuts, stated without the engine's search.     *)

ArcsOf(gg) == UNION { {<<u, k>> : k \in DOMAIN gg[u]} : u \in DOMAIN gg }

RECURSIVE Closure(_, _)
Closure(gg, X) ==
    LET step == X \cup {gg[a[1]][a[2]].to :
                          a \in {b \in ArcsOf(gg) :
                                   b[1] \in X /\ gg[b[1]][b[2]].cap > 0}}
    IN  IF step = X THEN X ELSE Closure(gg, step)

CutCapacity(gg, X) ==
    LET crossing == {a \in ArcsOf(gg) :
                       a[1] \in X /\ gg[a[1]][a[2]].to \notin X}
    IN  Sum([a \in crossing |-> gg[a[1]][a[2]].cap], crossing)

MinCut(gg, s, t) ==
    LET caps == {CutCapacity(gg, X \cup {s}) :
                   X \in SUBSET (DOMAIN gg \ {s, t})}
    IN  CHOOSE c \in caps : \A d \in caps : c <= d

LastCall == calls[Len(calls)]

MaxFlowReturned == pc \in {"check1", "check2"}

InMaxFlow == pc \in {"bfs", "dfs", "push"}

(* When max_flow(s, t) returns, the value it returns is the capacity of a  *)
(* minimum s-t cut of the residual graph it was entered with, and t is not *)
(* reachable from s over arcs with remaining capacity.                     *)
ReturnsMinCut ==
    MaxFlowReturned =>
        /\ flow = MinCut(LastCall.g, LastCall.s, LastCall.t)
        /\ LastCall.t \notin Closure(g, {LastCall.s})

(* While max_flow runs, the flow pushed so far stays within that cut.      *)
FlowWithinCut ==
    InMaxFlow => flow <= MinCut(LastCall.g, LastCall.s, LastCall.t)

(* The first dfs after a successful bfs finds a path.                      *)
RoundFindsPath ==
    (pc = "bfs" /\ pc' = "dfs") =>
        dfs(g', level', MfSource', MfSink', DfsLimit, it').pushed > 0

(* Every path pushed raises the flow.                                      *)
PushRaisesFlow == (pc = "push" /\ pc' = "dfs") => flow' > flow

(* C11: max_flow(s, t) terminates and returns the maximum flow, equal to   *)
(* the minimum s-t cut capacity of the graph on entry, leaving t           *)
(* unreachable from s.  Termination: every bfs round pushes at least one   *)
(* path, every path raises the integer flow, and the flow never exceeds    *)
(* the cut.                                                                *)
C11_MaxFlowIsMinCut ==
    /\ []ReturnsMinCut
    /\ []FlowWithinCut
    /\ [][RoundFindsPath]_vars
    /\ [][PushRaisesFlow]_vars

(* C11 witness: max_flow has returned a positive value from a graph that   *)
(* already carried flow, and took flow back from a declared edge's arc.    *)
C11_Witness ==
    /\ pc = "check2"
    /\ flow > 0
    /\ \E k \in DOMAIN edge_records :
         g[edge_records[k].u_idx][edge_records[k].pos].cap
           > LastCall.g[edge_records[k].u_idx][edge_records[k].pos].cap

-----------------------------------------------------------------------------
(* The forward arcs add_edge has created: the arcs whose handles the solve *)
(* recorded, and every arc created with a positive capacity (a reverse arc *)
(* is created with capacity 0).                                            *)
ForwardArcs ==
    {<<edge_records[k].u_idx, edge_records[k].pos>> : k \in DOMAIN edge_records}
      \cup {node_split_edge_ref[n] : n \in DOMAIN node_split_edge_ref}
      \cup {a \in ArcsOf(g) : g[a[1]][a[2]].orig > 0}

(* The arc stored as a's pair carries a's used capacity and points back.   *)
PairedWith(a) ==
    LET e == g[a[1]][a[2]]
    IN  /\ e.rev \in DOMAIN g[e.to]
        /\ e.cap + g[e.to][e.rev].cap = e.orig
        /\ g[e.to][e.rev].to = a[1]
        /\ g[e.to][e.rev].rev = a[2]

(* C12: in every state of a solve, every forward arc a and the arc stored  *)
(* as its pair, g[a.to][a.rev], satisfy a.cap + pair.cap = a.orig, and the *)
(* pair's rev points back to a -- self-loops on unsplit nodes included.    *)
C12_ArcPairing == \A a \in ForwardArcs : PairedWith(a)

-----------------------------------------------------------------------------
(* The solve returned the certificate of a failed max-flow phase: phase 1  *)
(* fell short of the total positive demand, or phase 2 was run and the     *)
(* result is infeasible.                                                   *)
CertificateAfterPhase ==
    /\ Done
    /\ result.status = "infeasible"
    /\ \/ Len(calls) = 1 /\ flow # total_pos_demand
       \/ Len(calls) = 2

ReportedTightNodes ==
    {result.deficit.tight_nodes[k] : k \in DOMAIN result.deficit.tight_nodes}

(* The source side of the cut: what the phase's source reaches over arcs   *)
(* with remaining capacity in the final residual graph.                    *)
SourceSide == Closure(g, {LastCall.s})

AtCutBoundary(n) == in_id[n] \in SourceSide /\ out_id[n] \notin SourceSide

SplitArc(n) == g[node_split_edge_ref[n][1]][node_split_edge_ref[n][2]]

SaturatedSplitNodes ==
    {n \in DOMAIN node_split_edge_ref : SplitArc(n).cap = 0}

(* C13 as stated: in every certificate produced after a max-flow phase,    *)
(* each name in deficit.tight_nodes is a split node whose saturated        *)
(* capacity arc lies at the cut boundary (in_index reachable from the      *)
(* phase's source in the final residual graph, out_index not); saturated   *)
(* split nodes entirely on one side of the cut are not reported.           *)
C13_AtCutBoundary ==
    CertificateAfterPhase =>
        \A n \in ReportedTightNodes :
            n \in SaturatedSplitNodes /\ AtCutBoundary(n)

(* C13, amended: in every certificate produced after a max-flow phase,     *)
(* deficit.tight_nodes lists, in sorted order and once each, exactly the   *)
(* split nodes whose capacity arc has no remaining capacity, on whichever  *)
(* side of the cut they lie.                                               *)
C13_SaturatedSplitNodes ==
    CertificateAfterPhase =>
        LET tn == result.deficit.tight_nodes
        IN  /\ ReportedTightNodes = SaturatedSplitNodes
            /\ \A j, k \in DOMAIN tn : j < k => Rank(tn[j]) < Rank(tn[k])

(* A certificate after a failed phase that reports a saturated split node  *)
(* which does not lie at the cut boundary.                                 *)
C13_Witness ==
    /\ CertificateAfterPhase
    /\ \E n \in ReportedTightNodes : ~AtCutBoundary(n)

-----------------------------------------------------------------------------
(* C14: whenever the solve returns status ok, the reported                 *)
(* max_flow_per_min equals the total declared positive supply, which is    *)
(* what phase 2 pushed from S_main to T_main -- also when the sink has     *)
(* outgoing edges, lies on a cycle with positive lower bounds, or is       *)
(* itself a declared source.                                               *)
C14_DeliveredIsSupply ==
    ReturnedOk =>
        /\ flow = total_supply
        /\ result.max_flow_per_min = total_supply

=============================================================================
